---- MODULE Spec2Model ----
(***************************************************************************)
(* Model of the BabySAT solvers of this repository.                        *)
(*                                                                         *)
(* The first part models src/babysat-watches.cpp, the CDCL solver with     *)
(* two watched literals per clause, as it is built by the repository's     *)
(* makefile (g++ -O3 -DNDEBUG: assertions are compiled out).               *)
(*                                                                         *)
(* Literals are the non-zero integers -variables..variables, clauses are   *)
(* referred to by their index in the global vector `clauses` (index 0 is   *)
(* the null pointer).                                                      *)
(***************************************************************************)
EXTENDS Integers, Sequences, FiniteSets, TLC

\* Bounds of the model.
NumVars == 3        \* `variables` of the DIMACS header
MaxClauses == 4     \* number of clauses of the parsed formula
MaxLimit == 1       \* largest explicit conflict limit given with -c
MaxJunk == 1        \* uninitialised words of a run that are not zero
WideVars == 4       \* `variables` of the header of the wide formulas

\* size_t limit = -1: the default limit is larger than any conflict count.
DefaultLimit == 2147483647

\* Marks a cell that was allocated with new[] and never written.
Uninit == -1

\* static int variables: the variable range of the header `p cnf`.
VARIABLE variables

Vars == 1..variables
Lits == {l \in (0 - variables)..variables : l # 0}

abs(l) == IF l < 0 THEN 0 - l ELSE l

Min(a, b) == IF a < b THEN a ELSE b

\* The sum instead of the larger of the two.
Plus(a, b) == a + b

Max(a, b) == IF a > b THEN a ELSE b

SeqToSet(s) == {s[i] : i \in 1..Len(s)}

\* std::remove + erase: all elements equal to x are dropped, order is kept.
RECURSIVE Remove(_, _)
Remove(s, x) ==
  IF s = <<>> THEN <<>>
  ELSE IF Head(s) = x THEN Remove(Tail(s), x)
       ELSE <<Head(s)>> \o Remove(Tail(s), x)

\* The cells of a vector's buffer after erase(remove(...)): the live
\* elements are moved to the front, the cells behind them keep their old
\* contents (the buffer is not reallocated and not cleared).
Overlay(buf, live) ==
  [i \in 1..Len(buf) |-> IF i <= Len(live) THEN live[i] ELSE buf[i]]

(***************************************************************************)
(* The formulas given to the solver: sequences of at most MaxClauses       *)
(* clauses drawn from InputClauses.                                        *)
(***************************************************************************)
InputClauses ==
  { <<>>, <<1>>, <<-1>>,
    <<3, -1, -2>>, <<-3, -1>>, <<2, -1, 3>>, <<3, -2, 1>>, <<-1, -3, 2>> }

\* The clauses of the formulas over WideVars variables: clauses of four
\* literals and none of size below two.
WideClauses ==
  { <<-1, -4, -2>>, <<-1, -3, 2, -4>>, <<4, -1>>,
    <<4, -1, 2, 3>>, <<-1, -4, 2, 3>>, <<4, -1, -2, 3>>,
    <<-2, -4, 3>>, <<-2, -4, -3>> }

\* The clauses the input of this run is drawn from.
Pool == IF variables = WideVars THEN WideClauses ELSE InputClauses

(***************************************************************************)
(* Values an uninitialised word can hold.  A Clause is allocated as        *)
(* new char[bytes], so no constructor runs and watch1/watch2 of a clause   *)
(* of size 0 or 1 are never written before add_clause reads them.          *)
(***************************************************************************)
OutOfRange == variables + 1
UninitWords == {0} \cup Lits \cup {OutOfRange}

\* Values an uninitialised cell of `levels` can hold.
UninitLevels == 0..variables

VARIABLES
  pc,            \* position in main/solve
  values,        \* values[v]: 1 = v true, -1 = v false, 0 = unassigned
  levels,        \* levels[v]
  reasons,       \* reasons[v]: clause index, 0 = null pointer
  stamped,       \* stamped[v]
  clauses,       \* the global vector of clauses
  watched,       \* watched[lit]: vector of clause indices
  empty_clause,  \* 0 = null, else index of the empty/inconsistent clause
  trail,         \* trail[1..Len(trail)]: assigned literals (trail..assigned)
  propagated,    \* number of trail literals already propagated
  control,       \* trail lengths at which the decision levels began
  level,         \* decision level
  limit,         \* conflict limit
  conflicts, backjumps, decisions, propagations, fixed,
  searched,      \* cursor of decide
  conflict,      \* result of the last propagate(): clause index or 0
  learned,       \* analyze: the learned clause
  uip,           \* analyze: the UIP literal
  backjump,      \* analyze: the backjump level
  parsed,        \* trail length, level and counters when parse() returned
  junk,          \* uninitialised words read so far that were not zero
  analyzed       \* variables analyzed whose reasons are still to be resolved

vars == <<pc, values, levels, reasons, stamped, clauses, watched, empty_clause,
          trail, propagated, control, level, limit, conflicts, backjumps,
          decisions, propagations, fixed, searched, conflict, learned, uip,
          backjump, parsed, junk, variables, analyzed>>

\* The solver's globals as one record, handed through the operators below.
\* `crashed` records that the process was killed by an out-of-bounds access,
\* `broken` that an assertion of assign or unassign (compiled out with
\* -DNDEBUG) did not hold at one of their calls.
Mach ==
  [values |-> values, levels |-> levels, reasons |-> reasons,
   stamped |-> stamped, clauses |-> clauses, watched |-> watched,
   empty_clause |-> empty_clause, trail |-> trail, propagated |-> propagated,
   control |-> control, level |-> level, conflicts |-> conflicts,
   backjumps |-> backjumps, decisions |-> decisions,
   propagations |-> propagations, fixed |-> fixed, searched |-> searched,
   crashed |-> FALSE, broken |-> FALSE]

Store(m) ==
  /\ values' = m.values
  /\ levels' = m.levels
  /\ reasons' = m.reasons
  /\ stamped' = m.stamped
  /\ clauses' = m.clauses
  /\ watched' = m.watched
  /\ empty_clause' = m.empty_clause
  /\ trail' = m.trail
  /\ propagated' = m.propagated
  /\ control' = m.control
  /\ level' = m.level
  /\ conflicts' = m.conflicts
  /\ backjumps' = m.backjumps
  /\ decisions' = m.decisions
  /\ propagations' = m.propagations
  /\ fixed' = m.fixed
  /\ searched' = m.searched

\* values[lit] for a literal of either sign.
val(vals, lit) == IF lit > 0 THEN vals[lit] ELSE 0 - vals[0 - lit]

\* static bool satisfied(Clause *c)
satisfiedClause(vals, lits) == \E i \in 1..Len(lits) : val(vals, lits[i]) > 0

\* static bool satisfied(): assigned - trail == variables
satisfied(m) == Len(m.trail) = variables

\* static void assign(int lit, Clause *reason).  The trail array has
\* variables + 1 cells; a write behind it kills the process.
assign(m, lit, reason) ==
  IF Len(m.trail) >= variables + 1 THEN [m EXCEPT !.crashed = TRUE]
  ELSE [m EXCEPT !.values[abs(lit)] = IF lit > 0 THEN 1 ELSE -1,
                 !.levels[abs(lit)] = m.level,
                 !.reasons[abs(lit)] = reason,
                 !.trail = Append(@, lit),
                 !.fixed = IF m.level = 0 THEN @ + 1 ELSE @,
                 !.broken = @ \/ val(m.values, lit) # 0]

\* add_clause without the test for a unit whose literal is already false.
add_unit_unchecked(m, c, unit) ==
  IF val(m.values, unit) = 0 THEN assign(m, unit, 0) ELSE m

\* add_clause, lines 372-381: the unit clause c with the literal `unit`.
add_unit(m, c, unit) ==
  IF val(m.values, unit) = 0 THEN assign(m, unit, 0)
  ELSE IF val(m.values, unit) < 0 THEN [m EXCEPT !.empty_clause = c]
  ELSE m

\* static Clause *add_clause(std::vector<int> &literals).  w1 and w2 are
\* what the uninitialised watch1 and watch2 hold when the size is below 2.
add_clause(m, lits, w1, w2) ==
  LET c == Len(m.clauses) + 1
      size == Len(lits)
      watch1 == IF size > 1 THEN lits[1] ELSE w1
      watch2 == IF size > 1 THEN lits[2] ELSE w2
      cl == [lits |-> lits, watch1 |-> watch1, watch2 |-> watch2,
             blocker |-> IF size > 0 THEN lits[1] ELSE 0]
      m1 == [m EXCEPT !.clauses = Append(@, cl)]
      m2 == IF size = 0 THEN [m1 EXCEPT !.empty_clause = c]
            ELSE IF size = 1 THEN add_unit(m1, c, lits[1])
            ELSE m1
      m3 == IF watch1 = 0 THEN m2
            ELSE IF watch1 \notin Lits THEN [m2 EXCEPT !.crashed = TRUE]
            ELSE [m2 EXCEPT !.watched[watch1] = Append(@, c)]
  IN IF m3.crashed \/ watch2 = 0 THEN m3
     ELSE IF watch2 \notin Lits THEN [m3 EXCEPT !.crashed = TRUE]
     ELSE [m3 EXCEPT !.watched[watch2] = Append(@, c)]

(***************************************************************************)
(* propagate().  The loop `for (auto c : occurrences)` runs over the       *)
(* buffer of watched[-lit] between the begin and end pointers it took when *)
(* it started; watched[-lit].erase(std::remove(...)) inside the loop moves *)
(* the later elements one cell to the front and neither reallocates nor    *)
(* moves those pointers.  `buf` are the buffer's cells, i the index of the *)
(* next cell the loop reads.                                               *)
(***************************************************************************)

\* The last literal of the clause that is true, if any: the loop over the
\* clause sets c->blocker = other for each true literal in turn.
RECURSIVE LastTrue(_, _, _, _)
LastTrue(vals, lits, i, dflt) ==
  IF i = 0 THEN dflt
  ELSE IF val(vals, lits[i]) = 1 THEN lits[i]
       ELSE LastTrue(vals, lits, i - 1, dflt)

\* The first literal of the clause that is not false and not watched
\* (0 if there is none): the new watch.
RECURSIVE FirstFree(_, _, _, _, _)
FirstFree(vals, lits, i, w1, w2) ==
  IF i > Len(lits) THEN 0
  ELSE IF val(vals, lits[i]) > -1 /\ lits[i] # w1 /\ lits[i] # w2 THEN lits[i]
       ELSE FirstFree(vals, lits, i + 1, w1, w2)

\* Lines 486-487: the watch that is not `check` is replaced by `other`.
MoveWatch(cl, check, other) ==
  LET a == IF check = cl.watch1 THEN [cl EXCEPT !.watch2 = other] ELSE cl
  IN IF check = a.watch2 THEN [a EXCEPT !.watch1 = other] ELSE a

\* The body of the loop over the watches for the clause in cell i.
\* Result: the machine, the buffer's cells and the conflicting clause (or 0).
VisitClause(m, lit, buf, i) ==
  LET c == buf[i]
      cl == m.clauses[c]
      check == IF cl.watch1 = 0 - lit THEN cl.watch2 ELSE cl.watch1
      other == FirstFree(m.values, cl.lits, 1, cl.watch1, cl.watch2)
      blocker == LastTrue(m.values, cl.lits, Len(cl.lits), cl.blocker)
      live == Remove(m.watched[0 - lit], c)
  IN IF val(m.values, cl.blocker) = 1 THEN [m |-> m, buf |-> buf, conflict |-> 0]
     ELSE IF val(m.values, check) = 1 THEN [m |-> m, buf |-> buf, conflict |-> 0]
     ELSE IF other # 0
       THEN [m |-> [m EXCEPT
                      !.watched = [[@ EXCEPT ![0 - lit] = live]
                                     EXCEPT ![other] = Append(@, c)],
                      !.clauses[c] =
                         MoveWatch([cl EXCEPT !.blocker = blocker], check, other)],
             buf |-> Overlay(buf, live), conflict |-> 0]
     ELSE IF val(m.values, check) = -1
       THEN [m |-> [m EXCEPT !.clauses[c].blocker = blocker,
                             !.conflicts = @ + 1],
             buf |-> buf, conflict |-> c]
     ELSE [m |-> assign([m EXCEPT !.clauses[c].blocker = blocker], check, c),
           buf |-> buf, conflict |-> 0]

RECURSIVE VisitWatches(_, _, _, _)
VisitWatches(m, lit, buf, i) ==
  IF i > Len(buf) \/ m.crashed THEN [m |-> m, conflict |-> 0]
  ELSE LET r == VisitClause(m, lit, buf, i)
       IN IF r.conflict # 0 THEN [m |-> r.m, conflict |-> r.conflict]
          ELSE VisitWatches(r.m, lit, r.buf, i + 1)

\* propagate that returns the conflicting clause without counting it.
RECURSIVE propagate_uncounted(_)
propagate_uncounted(m) ==
  IF m.propagated = Len(m.trail) \/ m.crashed THEN [m |-> m, conflict |-> 0]
  ELSE LET lit == m.trail[m.propagated + 1]
           m1 == [m EXCEPT !.propagations = @ + 1, !.propagated = @ + 1]
           r == VisitWatches(m1, lit, m1.watched[0 - lit], 1)
       IN IF r.conflict # 0
            THEN [m |-> [r.m EXCEPT !.conflicts = m.conflicts],
                  conflict |-> r.conflict]
            ELSE propagate_uncounted(r.m)

\* static Clause *propagate(void)
RECURSIVE propagate(_)
propagate(m) ==
  IF m.propagated = Len(m.trail) \/ m.crashed THEN [m |-> m, conflict |-> 0]
  ELSE LET lit == m.trail[m.propagated + 1]
           m1 == [m EXCEPT !.propagations = @ + 1, !.propagated = @ + 1]
           r == VisitWatches(m1, lit, m1.watched[0 - lit], 1)
       IN IF r.conflict # 0 THEN r ELSE propagate(r.m)

\* static void decide(void).  The loop runs off the end of `values` when no
\* variable is unassigned.
RECURSIVE NextUnassigned(_, _)
NextUnassigned(vals, v) ==
  IF v > variables THEN v
  ELSE IF vals[v] # 0 THEN NextUnassigned(vals, v + 1) ELSE v

\* decide that assigns the decision before it opens the new level.
decide_before_level(m) ==
  LET v == NextUnassigned(m.values, m.searched)
      m1 == assign([m EXCEPT !.decisions = @ + 1, !.searched = v,
                             !.stamped[v] = 0], v, 0)
  IN IF v > variables THEN [m EXCEPT !.crashed = TRUE, !.decisions = @ + 1]
     ELSE [m1 EXCEPT !.level = @ + 1, !.control = Append(@, Len(m.trail))]

decide(m) ==
  LET v == NextUnassigned(m.values, m.searched)
  IN IF v > variables THEN [m EXCEPT !.crashed = TRUE, !.decisions = @ + 1]
     ELSE assign([m EXCEPT !.decisions = @ + 1,
                           !.searched = v,
                           !.level = @ + 1,
                           !.control = Append(@, Len(m.trail)),
                           !.stamped[v] = 0],
                 v, 0)

\* unassign that lowers the cursor of decide but keeps the value.
unassign_keep_value(m, lit) ==
  [m EXCEPT !.searched = IF abs(lit) < @ THEN abs(lit) ELSE @]

\* unassign that leaves the cursor of decide where it is.
unassign_keep_searched(m, lit) == [m EXCEPT !.values[abs(lit)] = 0]

\* static void unassign(int lit)
unassign(m, lit) ==
  [m EXCEPT !.values[abs(lit)] = 0,
            !.searched = IF abs(lit) < @ THEN abs(lit) ELSE @,
            !.broken = @ \/ val(m.values, lit) # 1]

RECURSIVE UnassignDownTo(_, _)
UnassignDownTo(m, before) ==
  IF Len(m.trail) = before THEN m
  ELSE UnassignDownTo(
         unassign([m EXCEPT !.trail = SubSeq(@, 1, Len(@) - 1)],
                  m.trail[Len(m.trail)]),
         before)

\* Line 540: the literals in the order in which unassign is called on them.
RECURSIVE UnassignOrder(_, _)
UnassignOrder(tr, before) ==
  IF Len(tr) <= before THEN <<>>
  ELSE <<tr[Len(tr)]>> \o UnassignOrder(SubSeq(tr, 1, Len(tr) - 1), before)

\* backtrack that lowers the level but leaves the trail as it is.
backtrack_keep_trail(m, new_level) ==
  IF new_level >= Len(m.control) \/ m.control[new_level + 1] > Len(m.trail)
    THEN [m EXCEPT !.crashed = TRUE]
  ELSE [m EXCEPT !.control = SubSeq(@, 1, new_level),
                 !.propagated = m.control[new_level + 1],
                 !.level = new_level]

\* backtrack that forgets to reset the cursor of propagation.
backtrack_keep_cursor(m, new_level) ==
  IF new_level >= Len(m.control) \/ m.control[new_level + 1] > Len(m.trail)
    THEN [m EXCEPT !.crashed = TRUE]
  ELSE LET m1 == UnassignDownTo(m, m.control[new_level + 1])
       IN [m1 EXCEPT !.control = SubSeq(@, 1, new_level),
                     !.level = new_level]

\* backtrack that forgets control.resize(new_level).
backtrack_keep_control(m, new_level) ==
  IF new_level >= Len(m.control) \/ m.control[new_level + 1] > Len(m.trail)
    THEN [m EXCEPT !.crashed = TRUE]
  ELSE LET before == m.control[new_level + 1]
           m1 == UnassignDownTo(m, before)
       IN [m1 EXCEPT !.propagated = before, !.level = new_level]

\* static void backtrack(unsigned new_level).  control[new_level] is read
\* behind the vector when new_level is not below the level.
backtrack(m, new_level) ==
  IF new_level >= Len(m.control) \/ m.control[new_level + 1] > Len(m.trail)
    THEN [m EXCEPT !.crashed = TRUE]
  ELSE LET before == m.control[new_level + 1]
           m1 == UnassignDownTo(m, before)
       IN [m1 EXCEPT !.control = SubSeq(@, 1, new_level),
                     !.propagated = before,
                     !.level = new_level]

(***************************************************************************)
(* analyze().  An analysis is the record [stamped, current, lower]; g is   *)
(* what levels[idx] holds for a variable that was never assigned (levels   *)
(* is allocated with new unsigned[size] and not initialised).              *)
(***************************************************************************)
LevelOf(m, idx, g) == IF m.levels[idx] = Uninit THEN g ELSE m.levels[idx]

\* static void analyze_literal(int lit, int &current, int &lower)
analyze_literal(m, a, lit, g) ==
  LET idx == abs(lit)
      lvl == LevelOf(m, idx, g)
  IN IF lvl = 0 \/ a.stamped[idx] = m.conflicts THEN a
     ELSE [a EXCEPT !.stamped[idx] = m.conflicts,
                    !.current = IF lvl = m.level THEN @ + 1 ELSE @,
                    !.lower = IF lvl = m.level THEN @ ELSE @ + 1]

\* for (auto lit : *c) analyze_literal(lit, current, lower);
RECURSIVE AnalyzeClause(_, _, _, _, _)
AnalyzeClause(m, a, lits, i, g) ==
  IF i > Len(lits) THEN a
  ELSE AnalyzeClause(m, analyze_literal(m, a, lits[i], g), lits, i + 1, g)

\* Lines 588-602: resolve the stamped literals of the conflict level until
\* one is left.  copy is the index of the trail cell *copy; copy = 0 is the
\* cell below the trail, reading it is an out-of-bounds access.
RECURSIVE ResolveLoop(_, _, _, _)
ResolveLoop(m, a, copy, g) ==
  IF a.current <= 1 THEN [a |-> a, copy |-> copy, crashed |-> FALSE]
  ELSE IF copy < 1 THEN [a |-> a, copy |-> copy, crashed |-> TRUE]
  ELSE LET idx == abs(m.trail[copy])
           reason == m.reasons[idx]
           a1 == IF reason # 0
                   THEN AnalyzeClause(m, a, m.clauses[reason].lits, 1, g)
                   ELSE a
       IN IF a.stamped[idx] = m.conflicts
            THEN ResolveLoop(m, [a1 EXCEPT !.current = @ - 1], copy - 1, g)
            ELSE ResolveLoop(m, a, copy - 1, g)

\* Line 605: skip the trail literals that are not stamped.
RECURSIVE SkipUnstamped(_, _, _)
SkipUnstamped(m, a, copy) ==
  IF copy < 1 THEN 0
  ELSE IF a.stamped[abs(m.trail[copy])] # m.conflicts
         THEN SkipUnstamped(m, a, copy - 1)
         ELSE copy

\* The literal itself instead of its negation.
SameLiteral(lit) == lit

\* Line 617: learned.push_back(-lit)
LearnedLiteral(lit) == 0 - lit

\* Lines 611-626: collect the stamped literals of the lower levels.
RECURSIVE CollectLower(_, _, _, _, _, _)
CollectLower(m, a, copy, lower, lrn, bj) ==
  IF lower = 0 THEN [learned |-> lrn, backjump |-> bj, crashed |-> FALSE]
  ELSE IF copy < 1 THEN [learned |-> lrn, backjump |-> bj, crashed |-> TRUE]
  ELSE LET lit == m.trail[copy]
           idx == abs(lit)
       IN IF a.stamped[idx] = m.conflicts
            THEN CollectLower(m, a, copy - 1, lower - 1,
                              Append(lrn, LearnedLiteral(lit)),
                              Max(bj, m.levels[idx]))
            ELSE CollectLower(m, a, copy - 1, lower, lrn, bj)

\* The test of the minimization without the search in the learned clause:
\* the literal has a reason.
HasReason(m, lrn, lit) == m.reasons[abs(lit)] # 0

\* Lines 632-642: every literal of the reason but the one of idx is found in
\* the learned clause.
Redundant(m, lrn, lit) ==
  LET reason == m.reasons[abs(lit)]
  IN /\ reason # 0
     /\ \A j \in 1..Len(m.clauses[reason].lits) :
          LET other == m.clauses[reason].lits[j]
          IN abs(other) # abs(lit) => other \in SeqToSet(lrn)

\* A minimization that drops every literal.
DropAll(m, lrn, buf, i) == <<>>

\* Lines 629-647: `for (auto lit : learned)` with learned.erase(std::remove
\* (...)) inside, over the buffer's cells as in the loop of propagate.
RECURSIVE Minimize(_, _, _, _)
Minimize(m, lrn, buf, i) ==
  IF i > Len(buf) THEN lrn
  ELSE IF Redundant(m, lrn, buf[i])
         THEN LET live == Remove(lrn, buf[i])
              IN Minimize(m, live, Overlay(buf, live), i + 1)
         ELSE Minimize(m, lrn, buf, i + 1)

\* Lines 568-650 of analyze: the learned clause, the UIP and the backjump
\* level for the conflicting clause c.
Analysis(m, c, g) ==
  LET a0 == AnalyzeClause(m, [stamped |-> m.stamped, current |-> 0, lower |-> 0],
                          m.clauses[c].lits, 1, g)
      r1 == ResolveLoop(m, a0, Len(m.trail), g)
      at == IF r1.crashed THEN 0 ELSE SkipUnstamped(m, r1.a, r1.copy)
      r3 == IF at = 0
              THEN [learned |-> <<>>, backjump |-> 0, crashed |-> TRUE]
              ELSE CollectLower(m, r1.a, at - 1, r1.a.lower, <<>>, 0)
      min == Minimize(m, r3.learned, r3.learned, 1)
  IN [stamped |-> r1.a.stamped,
      candidate |-> r3.learned,
      uip |-> IF at = 0 THEN 0 ELSE m.trail[at],
      learned |-> IF r3.crashed THEN <<>> ELSE Append(min, 0 - m.trail[at]),
      backjump |-> r3.backjump,
      crashed |-> r3.crashed]

\* Variables of the conflicting clause or of a reason on the trail whose
\* level was never written: analyze_literal reads an uninitialised value.
ReadsUninit(m, c) ==
  \E v \in Vars :
    /\ m.levels[v] = Uninit
    /\ \/ v \in {abs(l) : l \in SeqToSet(m.clauses[c].lits)}
       \/ \E i \in 1..Len(m.trail) :
            /\ m.reasons[abs(m.trail[i])] # 0
            /\ v \in {abs(l) : l \in
                        SeqToSet(m.clauses[m.reasons[abs(m.trail[i])]].lits)}

(***************************************************************************)
(* main(): the command line sets the limit, parse() adds the clauses,      *)
(* solve() runs the search.                                                *)
(***************************************************************************)
Limits == (0..MaxLimit) \cup {DefaultLimit}

Construct(n) ==
  /\ variables = n
  /\ analyzed = <<>>
  /\ pc = "parse"
  /\ values = [v \in Vars |-> 0]
  /\ levels = [v \in Vars |-> Uninit]
  /\ reasons = [v \in Vars |-> Uninit]
  /\ stamped = [v \in Vars |-> 0]
  /\ clauses = <<>>
  /\ watched = [l \in Lits |-> <<>>]
  /\ empty_clause = 0
  /\ trail = <<>>
  /\ propagated = 0
  /\ control = <<>>
  /\ level = 0
  /\ limit \in Limits
  /\ conflicts = 0
  /\ backjumps = 0
  /\ decisions = 0
  /\ propagations = 0
  /\ fixed = 0
  /\ searched = 1
  /\ conflict = 0
  /\ learned = <<>>
  /\ uip = 0
  /\ backjump = 0
  /\ parsed = <<>>
  /\ junk = 0

\* The state when main() has read the header `p cnf NumVars ...`.
Init == Construct(NumVars)

\* The state when main() has read the header `p cnf WideVars ...`.
WideInit == Construct(WideVars)

Analysing == <<conflict, learned, uip, backjump>>

Solver == <<values, levels, reasons, stamped, clauses, watched, empty_clause,
            trail, propagated, control, level, conflicts, backjumps,
            decisions, propagations, fixed, searched>>

\* The step of m: the process is killed when m.crashed, and then the state
\* is left as it was when the step began.
Step(m, next) ==
  IF m.crashed THEN pc' = "crash" /\ UNCHANGED Solver
  ELSE pc' = next /\ Store(m)

NonZero(w) == IF w = 0 THEN 0 ELSE 1

\* parse(): one clause of the input is read and added.
AddClause ==
  /\ pc = "parse"
  /\ Len(clauses) < MaxClauses
  /\ \E lits \in Pool :
       \E w1, w2 \in IF Len(lits) < 2 THEN UninitWords ELSE {0} :
         /\ junk + NonZero(w1) + NonZero(w2) <= MaxJunk
         /\ junk' = junk + NonZero(w1) + NonZero(w2)
         /\ UNCHANGED <<variables, analyzed>>
         /\ Step(add_clause(Mach, lits, w1, w2), "parse")
  /\ UNCHANGED <<limit, parsed, Analysing>>

\* The statistics as print_statistics shows them, with trail and level.
Snapshot ==
  [added |-> Len(clauses), trail |-> trail, level |-> level,
   control |-> control, propagated |-> propagated, conflicts |-> conflicts,
   backjumps |-> backjumps, decisions |-> decisions,
   propagations |-> propagations, fixed |-> fixed]

\* parse() returns and solve() is entered: line 675.
SolveStart ==
  /\ pc = "parse"
  /\ parsed' = Snapshot
  /\ pc' = IF empty_clause # 0 THEN "unsat" ELSE "propagate"
  /\ UNCHANGED <<values, levels, reasons, stamped, clauses, watched,
                 empty_clause, trail, propagated, control, level, limit,
                 conflicts, backjumps, decisions, propagations, fixed,
                 searched, Analysing, junk, variables, analyzed>>

\* solve() with the limit tested before satisfied().
solve_branch_limit_first(m, c, lim) ==
  IF c # 0 THEN IF m.level = 0 THEN "unsat" ELSE "analyze"
  ELSE IF m.conflicts >= lim THEN "unknown"
  ELSE IF satisfied(m) THEN "sat"
  ELSE "decide"

\* solve() that never polls the conflict limit.
solve_branch_no_limit(m, c, lim) ==
  IF c # 0 THEN IF m.level = 0 THEN "unsat" ELSE "analyze"
  ELSE IF satisfied(m) THEN "sat"
  ELSE "decide"

\* solve() without the test of the level: every conflict is analysed.
solve_branch_any_level(m, c, lim) ==
  IF c # 0 THEN "analyze"
  ELSE IF satisfied(m) THEN "sat"
  ELSE IF m.conflicts >= lim THEN "unknown"
  ELSE "decide"

\* solve(), lines 678-686: what follows the result c of propagate().
solve_branch(m, c, lim) ==
  IF c # 0 THEN IF m.level = 0 THEN "unsat" ELSE "analyze"
  ELSE IF satisfied(m) THEN "sat"
  ELSE IF m.conflicts >= lim THEN "unknown"
  ELSE "decide"

\* One pass of the loop of solve(): propagate() and the branch on its result.
Propagate ==
  /\ pc = "propagate"
  /\ LET r == propagate(Mach)
     IN /\ Step(r.m, solve_branch(r.m, r.conflict, limit))
        /\ conflict' = IF r.m.crashed THEN conflict ELSE r.conflict
  /\ UNCHANGED <<limit, parsed, learned, uip, backjump, junk, variables, analyzed>>

Decide ==
  /\ pc = "decide"
  /\ Step(decide(Mach), "propagate")
  /\ UNCHANGED <<limit, parsed, Analysing, junk, variables, analyzed>>

\* analyze(), lines 568-650: the learned clause is built.
Analyze ==
  /\ pc = "analyze"
  /\ \E g \in IF ReadsUninit(Mach, conflict) THEN UninitLevels ELSE {0} :
       LET r == Analysis(Mach, conflict, g)
       IN IF r.crashed
            THEN pc' = "crash" /\ UNCHANGED <<stamped, learned, uip, backjump>>
            ELSE /\ pc' = "learned"
                 /\ stamped' = r.stamped
                 /\ learned' = r.learned
                 /\ uip' = r.uip
                 /\ backjump' = r.backjump
  /\ UNCHANGED <<values, levels, reasons, clauses, watched, empty_clause,
                 trail, propagated, control, level, limit, conflicts,
                 backjumps, decisions, propagations, fixed, searched,
                 conflict, parsed, junk, variables, analyzed>>

\* analyze(), line 653: backtrack(backjump).
Backjump ==
  /\ pc = "learned"
  /\ Step(backtrack(Mach, backjump), "backjumped")
  /\ UNCHANGED <<limit, parsed, Analysing, junk, variables, analyzed>>

\* 32-bit unsigned numbers as the pair <<high half, low half>> of 16-bit
\* halves, for operands below 65536.
Unsigned(n) == <<0, n>>

UnsignedSub(a, b) ==
  IF a >= b THEN <<0, a - b>> ELSE <<65535, 65536 - (b - a)>>

UnsignedLess(x, y) == x[1] < y[1] \/ (x[1] = y[1] /\ x[2] < y[2])

\* Line 664: if (backjump < level - 1) backjumps++, in unsigned arithmetic.
CountBackjump(m, bj) ==
  IF UnsignedLess(Unsigned(bj), UnsignedSub(m.level, 1))
    THEN [m EXCEPT !.backjumps = @ + 1]
    ELSE m

\* analyze(), lines 655-664: the learned clause is added and asserted.
learn(m, lrn, u, bj) ==
  LET m1 == IF Len(lrn) > 1
              THEN assign(add_clause(m, lrn, 0, 0), 0 - u, Len(m.clauses) + 1)
              ELSE assign(m, 0 - u, 0)
  IN CountBackjump(m1, bj)

Learn ==
  /\ pc = "backjumped"
  /\ Step(learn(Mach, learned, uip, backjump), "propagate")
  /\ UNCHANGED <<limit, parsed, Analysing, junk, variables, analyzed>>

\* States in which propagate() has just returned, and those in which it has
\* returned none.
Returned == pc \in {"sat", "unsat", "unknown"}
PropagateReturned == pc \in {"analyze", "decide", "sat", "unknown"} \/
                     (pc = "unsat" /\ conflict # 0)
PropagateReturnedNone == pc \in {"decide", "sat", "unknown"}

Next ==
  \/ AddClause
  \/ SolveStart
  \/ Propagate
  \/ Decide
  \/ Analyze
  \/ Backjump
  \/ Learn

Spec == Init /\ [][Next]_vars

\* The same program on the formulas over WideVars variables.
SpecWide == WideInit /\ [][Next]_vars


(***************************************************************************)
(* Properties of babysat-watches.cpp.                                      *)
(***************************************************************************)

\* The clauses of the input formula are clauses[1..parsed.added]; the
\* clauses behind them are learned.
Original == 1..parsed.added

Assignments == [Vars -> {-1, 1}]

\* C1: whenever solve() returns SATISFIABLE, every clause of the original
\* formula has a literal that is true under the final assignment.
C1_SatModelSatisfiesFormula ==
  pc = "sat" => \A i \in Original : satisfiedClause(values, clauses[i].lits)

\* C2: whenever solve() returns UNSATISFIABLE, no total assignment of the
\* variables satisfies all clauses of the original formula.
C2_UnsatHasNoModel ==
  pc = "unsat" =>
    ~ \E a \in Assignments :
        \A i \in Original : satisfiedClause(a, clauses[i].lits)

\* solve() is at a step of its loop; each such step is enabled.
Running == pc \in {"propagate", "decide", "analyze", "learned", "backjumped"}

\* C3: the loop of solve() eventually returns SATISFIABLE, UNSATISFIABLE or
\* UNKNOWN: once solve() is entered it has returned or takes a next step.
C3_SolveReturns ==
  parsed # <<>> => (Returned \/ Running)

\* C4: solve() returns UNKNOWN only when the last propagate() returned no
\* conflict, a variable is unassigned and conflicts >= limit, and then the
\* cursor of propagation is the trail length and the decision stack has
\* `level` entries; when all variables are assigned without conflict it
\* returns SATISFIABLE whatever the limit; with the default limit it never
\* returns UNKNOWN.
C4_UnknownOnlyAtLimit ==
  /\ pc = "unknown" =>
       /\ conflict = 0
       /\ \E v \in Vars : values[v] = 0
       /\ conflicts >= limit
       /\ propagated = Len(trail)
       /\ Len(control) = level
  /\ (PropagateReturnedNone /\ \A v \in Vars : values[v] # 0) => pc = "sat"
  /\ limit = DefaultLimit => pc # "unknown"

C4_UnknownAfterConflict ==
  pc = "unknown" /\ limit > 0 /\ conflicts >= limit /\ Len(trail) > 0

\* The formula has an empty clause, or a unit clause whose literal was
\* already false when it was added (parse() assigns units only).
InconsistentInput ==
  \E i \in Original :
    \/ Len(clauses[i].lits) = 0
    \/ /\ Len(clauses[i].lits) = 1
       /\ \E j \in 1..(i - 1) : clauses[j].lits = <<0 - clauses[i].lits[1]>>

\* C5: if an empty clause was added, or a unit clause whose literal was
\* already false, solve() returns UNSATISFIABLE at once: no decision, no
\* propagation, and trail, level and counters are as parse() left them.
C5_InconsistentInputUnsatAtOnce ==
  (parsed # <<>> /\ InconsistentInput) =>
    /\ pc = "unsat"
    /\ decisions = 0
    /\ propagations = 0
    /\ Snapshot = parsed

C5_InconsistentUnit ==
  /\ pc = "unsat"
  /\ InconsistentInput
  /\ \A i \in Original : Len(clauses[i].lits) > 0
  /\ Len(trail) > 0

\* C6: a conflict of propagate() at decision level 0 makes solve() return
\* UNSATISFIABLE without calling analyze; analyze only runs at level >= 1.
C6_AnalyzeOnlyAboveLevelZero ==
  /\ pc \in {"analyze", "learned"} => level >= 1
  /\ (PropagateReturned /\ conflict # 0 /\ level = 0) => pc = "unsat"

C6_ConflictAtLevelZero ==
  pc = "unsat" /\ conflict # 0 /\ level = 0 /\ conflicts > 0

\* The points between the steps of solve(): propagate() has returned, or
\* decide() or analyze() is about to run or has just returned.
Quiescent == pc \in {"propagate", "decide", "analyze", "sat", "unsat", "unknown"}

\* The number of decisions made up to and including the trail index i.
DecisionsUpTo(i) == Cardinality({k \in 1..Len(control) : control[k] < i})

\* C7: at every quiescent point each trail literal is true and the level
\* recorded for its variable is the number of decisions up to its index.
C7_TrailConsistency ==
  Quiescent =>
    \A i \in 1..Len(trail) :
      /\ val(values, trail[i]) = 1
      /\ levels[abs(trail[i])] = DecisionsUpTo(i)

C7_TwoLevelsAfterConflict ==
  /\ pc = "decide"
  /\ conflicts > 0
  /\ level > 0
  /\ Len(trail) > level

\* C8: whenever propagate() returns none, every clause of size >= 2 has a
\* watched literal that is true or unassigned.
C8_WatchInvariant ==
  PropagateReturnedNone =>
    \A c \in 1..Len(clauses) :
      Len(clauses[c].lits) >= 2 =>
        \/ val(values, clauses[c].watch1) >= 0
        \/ val(values, clauses[c].watch2) >= 0

\* analyze() has just returned: the last propagate() found a conflict and
\* the next one has not run yet.
AnalyzeReturned == pc = "propagate" /\ conflict # 0

\* C9: right after backtrack(backjump) every literal of a learned clause of
\* size >= 2 but the asserting literal -uip is false and -uip is unassigned;
\* -uip is then assigned with the learned clause as its reason.
C9_LearnedClauseAsserting ==
  /\ (pc = "backjumped" /\ Len(learned) >= 2) =>
       /\ learned[Len(learned)] = 0 - uip
       /\ val(values, 0 - uip) = 0
       /\ \A i \in 1..(Len(learned) - 1) : val(values, learned[i]) = -1
  /\ (AnalyzeReturned /\ Len(learned) >= 2) =>
       /\ trail[Len(trail)] = 0 - uip
       /\ val(values, 0 - uip) = 1
       /\ reasons[abs(uip)] = Len(clauses)
       /\ clauses[Len(clauses)].lits = learned

C9_AssertedByLearnedClause ==
  /\ AnalyzeReturned
  /\ Len(learned) >= 2
  /\ reasons[abs(uip)] = Len(clauses)
  /\ level >= 1

\* C10: when analyze has built the learned clause (after minimization,
\* before backtrack) every literal of it, the asserting one included, is
\* false under the current assignment.
C10_LearnedClauseFalsified ==
  pc = "learned" => \A i \in 1..Len(learned) : val(values, learned[i]) = -1

C10_LearnedTwoLiterals ==
  pc = "learned" /\ Len(learned) >= 2 /\ val(values, uip) = 1


\* The literals lits[i..Len(lits)] are assigned again, each at the level
\* lvls and with the reason rsns recorded for its variable.
RECURSIVE Reassign(_, _, _, _, _)
Reassign(m, lits, i, lvls, rsns) ==
  IF i > Len(lits) THEN m
  ELSE Reassign(assign([m EXCEPT !.level = lvls[abs(lits[i])]],
                       lits[i], rsns[abs(lits[i])]),
                lits, i + 1, lvls, rsns)

Reverse(s) == [i \in 1..Len(s) |-> s[Len(s) + 1 - i]]

\* C11: backtrack(new_level) with new_level < level unassigns exactly the
\* trail literals at positions >= control[new_level], last first, and keeps
\* value, level and reason of the variables that stay on the trail; then
\* level = new_level, the decision stack has new_level entries and cursor =
\* trail length = control[new_level]; assigning the same literals again at
\* the same levels with the same reasons gives the values, levels and
\* reasons of before.
C11_BacktrackFrame ==
  [][(pc = "learned" /\ pc' = "backjumped" /\ backjump < level) =>
      LET before == control[backjump + 1]
          undone == SubSeq(trail, before + 1, Len(trail))
          again == Reassign(backtrack(Mach, backjump), undone, 1,
                            levels, reasons)
      IN /\ trail' = SubSeq(trail, 1, before)
         /\ UnassignOrder(trail, before) = Reverse(undone)
         /\ \A v \in Vars :
              values'[v] = IF v \in {abs(l) : l \in SeqToSet(undone)}
                             THEN 0 ELSE values[v]
         /\ \A i \in 1..before :
              /\ val(values', trail[i]) = 1
              /\ levels'[abs(trail[i])] = levels[abs(trail[i])]
              /\ reasons'[abs(trail[i])] = reasons[abs(trail[i])]
         /\ level' = backjump
         /\ Len(control') = backjump
         /\ propagated' = Len(trail')
         /\ Len(trail') = before
         /\ again.values = values
         /\ again.levels = levels
         /\ again.reasons = reasons
         /\ again.trail = trail]_vars

C11_BacktrackedAboveLevelZero ==
  /\ pc = "backjumped"
  /\ backjump >= 1
  /\ level = backjump
  /\ Len(trail) >= 1
  /\ val(values, uip) = 0

\* The rest of analyze (lines 653-664) from the state in which the learned
\* clause is built.
AfterLearning == learn(backtrack(Mach, backjump), learned, uip, backjump)

\* C12: analyze increments backjumps if and only if L - B > 1 for the level
\* L of the conflict and the backjump level B; a conflict at level 1 that
\* backjumps to level 0 does not increment it.
C12_BackjumpsCounted ==
  (pc = "learned" /\ ~ backtrack(Mach, backjump).crashed
                  /\ ~ AfterLearning.crashed) =>
    (AfterLearning.backjumps = backjumps + 1 <=> level - backjump > 1)

\* C13: conflicts is incremented exactly once for each conflicting clause
\* that propagate() returns (solve() then calls analyze or, at level 0,
\* returns UNSATISFIABLE) and at no other time: it grows by one from each
\* analysis to the next.
C13_ConflictsCounted ==
  [][conflicts' =
       IF pc = "propagate" /\ pc' \in {"analyze", "unsat"}
         THEN conflicts + 1 ELSE conflicts]_vars

C13_SecondConflict ==
  pc = "unsat" /\ conflicts = 2 /\ conflict # 0 /\ level = 0

\* decide() has just returned: the last propagate() returned none and a
\* decision was made after it.
DecideReturned == pc = "propagate" /\ conflict = 0 /\ decisions > 0

\* The unassigned variables.
Unassigned == {v \in Vars : values[v] = 0}

\* C14: on entry to decide every variable below `searched` is assigned and
\* some variable is unassigned (searched <= variables holds); decide assigns
\* the positive literal of the unassigned variable of smallest index, at a
\* new decision level and without reason.
C14_DecideSmallestUnassigned ==
  [][pc = "decide" =>
      /\ \A v \in Vars : v < searched => values[v] # 0
      /\ Unassigned # {}
      /\ pc' = "propagate"
      /\ LET d == CHOOSE v \in Unassigned : \A u \in Unassigned : v <= u
         IN /\ trail' = Append(trail, d)
            /\ searched' = d
            /\ values' = [values EXCEPT ![d] = 1]
            /\ level' = level + 1
            /\ levels'[d] = level + 1
            /\ reasons'[d] = 0
            /\ decisions' = decisions + 1]_vars

C14_DecisionAfterBackjump ==
  /\ DecideReturned
  /\ conflicts > 0
  /\ trail[Len(trail)] >= 2
  /\ reasons[trail[Len(trail)]] = 0
  /\ level >= 1

(***************************************************************************)
(* The second part models src/babysat-dpll.cpp, the DPLL solver with full  *)
(* occurrence lists (`matrix`), built with -DNDEBUG as well.  It uses the  *)
(* variables pc, values, levels, clauses, empty_clause, trail, propagated, *)
(* control, level, conflicts, decisions, propagations, fixed and parsed;   *)
(* a clause is the record [lits |-> ...].                                  *)
(***************************************************************************)
DpllInputClauses ==
  { <<>>, <<1>>, <<-1>>, <<2>>,
    <<-1, 2>>, <<-2, 3>>, <<-1, -2>>, <<1, 3>>, <<-3, -1, 2>> }

DpllMach ==
  [values |-> values, levels |-> levels, clauses |-> clauses,
   empty_clause |-> empty_clause, trail |-> trail, propagated |-> propagated,
   control |-> control, level |-> level, conflicts |-> conflicts,
   decisions |-> decisions, propagations |-> propagations, fixed |-> fixed,
   crashed |-> FALSE]

DpllSolver == <<values, levels, clauses, empty_clause, trail, propagated,
                control, level, conflicts, decisions, propagations, fixed>>

\* The globals of babysat-watches.cpp that babysat-dpll.cpp does not have.
DpllUnused == <<reasons, stamped, watched, limit, backjumps, searched,
                conflict, learned, uip, backjump, junk, variables, analyzed>>

DpllStore(m) ==
  /\ values' = m.values
  /\ levels' = m.levels
  /\ clauses' = m.clauses
  /\ empty_clause' = m.empty_clause
  /\ trail' = m.trail
  /\ propagated' = m.propagated
  /\ control' = m.control
  /\ level' = m.level
  /\ conflicts' = m.conflicts
  /\ decisions' = m.decisions
  /\ propagations' = m.propagations
  /\ fixed' = m.fixed

\* static void assign(int lit)
dpll_assign(m, lit) ==
  [m EXCEPT !.values[abs(lit)] = IF lit > 0 THEN 1 ELSE -1,
            !.levels[abs(lit)] = m.level,
            !.trail = Append(@, lit),
            !.fixed = IF m.level = 0 THEN @ + 1 ELSE @]

\* static Clause *add_clause(std::vector<int> &literals)
dpll_add_clause(m, lits) ==
  LET c == Len(m.clauses) + 1
      m1 == [m EXCEPT !.clauses = Append(@, [lits |-> lits])]
  IN IF Len(lits) = 0 THEN [m1 EXCEPT !.empty_clause = c]
     ELSE IF Len(lits) = 1
       THEN IF val(m1.values, lits[1]) = 0 THEN dpll_assign(m1, lits[1])
            ELSE IF val(m1.values, lits[1]) < 0
              THEN [m1 EXCEPT !.empty_clause = c]
              ELSE m1
     ELSE m1

\* connect_literal: clause c is pushed on matrix[lit] once for each of its
\* literals lits[j..] that is lit.
RECURSIVE Connect(_, _, _, _)
Connect(lits, j, lit, c) ==
  IF j > Len(lits) THEN <<>>
  ELSE (IF lits[j] = lit THEN <<c>> ELSE <<>>) \o Connect(lits, j + 1, lit, c)

\* matrix[lit]: the clauses with the literal lit, in the order of their
\* addition (clauses c..Len(cls)).
RECURSIVE matrix(_, _, _)
matrix(cls, lit, c) ==
  IF c > Len(cls) THEN <<>>
  ELSE Connect(cls[c].lits, 1, lit, c) \o matrix(cls, lit, c + 1)

\* The positions of the unassigned literals of a clause.
UnassignedAt(vals, lits) == {j \in 1..Len(lits) : val(vals, lits[j]) = 0}

\* propagate, lines 422-449: the loop over matrix[-lit] from its cell i.
\* A forcing clause assigns its literal and the `break` behind the switch
\* leaves the loop; ok = FALSE is the falsified clause.
RECURSIVE dpll_visit(_, _, _)
dpll_visit(m, occ, i) ==
  IF i > Len(occ) THEN [m |-> m, ok |-> TRUE]
  ELSE LET lits == m.clauses[occ[i]].lits
           un == UnassignedAt(m.values, lits)
       IN IF satisfiedClause(m.values, lits) THEN dpll_visit(m, occ, i + 1)
          ELSE IF un = {}
            THEN [m |-> [m EXCEPT !.conflicts = @ + 1], ok |-> FALSE]
          ELSE IF Cardinality(un) = 1
            THEN [m |-> dpll_assign(m, lits[CHOOSE j \in un : TRUE]),
                  ok |-> TRUE]
          ELSE dpll_visit(m, occ, i + 1)

\* static bool propagate(void)
RECURSIVE dpll_propagate(_)
dpll_propagate(m) ==
  IF m.propagated >= Len(m.trail) THEN [m |-> m, ok |-> TRUE]
  ELSE LET lit == m.trail[m.propagated + 1]
           m1 == [m EXCEPT !.propagations = @ + 1, !.propagated = @ + 1]
           r == dpll_visit(m1, matrix(m1.clauses, 0 - lit, 1), 1)
       IN IF r.ok THEN dpll_propagate(r.m) ELSE r

\* static bool satisfied(): every clause has a true literal.
dpll_satisfied(m) ==
  \A c \in 1..Len(m.clauses) : satisfiedClause(m.values, m.clauses[c].lits)

\* The result of the loop of decide (lines 467-474): the first unassigned
\* variable, 0 when there is none.
RECURSIVE FirstUnassigned(_, _)
FirstUnassigned(vals, i) ==
  IF i > variables THEN 0
  ELSE IF vals[i] = 0 THEN i ELSE FirstUnassigned(vals, i + 1)

\* static int decide(void).  With res = 0 the literal 0 is assigned: no
\* clause is in matrix[0], satisfied() stays false and dpll() decides 0 again
\* in every deeper call, until the stack is exhausted and the process is
\* killed.
dpll_decide(m) ==
  LET res == FirstUnassigned(m.values, 1)
      m1 == [m EXCEPT !.decisions = @ + 1,
                      !.level = @ + 1,
                      !.control = Append(@, Len(m.trail))]
  IN IF res = 0 THEN [m1 EXCEPT !.crashed = TRUE] ELSE dpll_assign(m1, res)

\* static void unassign(int lit)
dpll_unassign(m, lit) == [m EXCEPT !.values[abs(lit)] = 0]

RECURSIVE dpll_pop(_, _)
dpll_pop(m, old_height) ==
  IF Len(m.trail) <= old_height THEN m
  ELSE dpll_pop([dpll_unassign(m, m.trail[Len(m.trail)])
                   EXCEPT !.trail = SubSeq(@, 1, Len(@) - 1)],
                old_height)

\* static void backtrack()
dpll_backtrack(m) ==
  LET old_height == m.control[Len(m.control)]
      m1 == dpll_pop([m EXCEPT !.control = SubSeq(@, 1, Len(@) - 1)],
                     old_height)
  IN [m1 EXCEPT !.propagated = Len(m1.trail), !.level = @ - 1]

\* dpll(), lines 520-523: the decision x of the call that returns from its
\* recursive call is the literal that decide pushed at control.back().
dpll_flip(m) ==
  LET x == m.trail[m.control[Len(m.control)] + 1]
  IN dpll_assign(dpll_backtrack(m), 0 - x)

DpllInit ==
  /\ variables = NumVars
  /\ analyzed = <<>>
  /\ pc = "parse"
  /\ values = [v \in Vars |-> 0]
  /\ levels = [v \in Vars |-> Uninit]
  /\ clauses = <<>>
  /\ empty_clause = 0
  /\ trail = <<>>
  /\ propagated = 0
  /\ control = <<>>
  /\ level = 0
  /\ conflicts = 0
  /\ decisions = 0
  /\ propagations = 0
  /\ fixed = 0
  /\ parsed = <<>>
  /\ reasons = <<>>
  /\ stamped = <<>>
  /\ watched = <<>>
  /\ limit = 0
  /\ backjumps = 0
  /\ searched = 0
  /\ conflict = 0
  /\ learned = <<>>
  /\ uip = 0
  /\ backjump = 0
  /\ junk = 0

DpllStep(m, next) ==
  IF m.crashed THEN pc' = "crash" /\ UNCHANGED DpllSolver
  ELSE pc' = next /\ DpllStore(m)

\* parse(): one clause of the input is read and added.
DpllAddClause ==
  /\ pc = "parse"
  /\ Len(clauses) < MaxClauses
  /\ \E lits \in DpllInputClauses :
       DpllStep(dpll_add_clause(DpllMach, lits), "parse")
  /\ UNCHANGED <<parsed, DpllUnused>>

\* parse() returns and solve() is entered: line 528.
DpllSolveStart ==
  /\ pc = "parse"
  /\ parsed' = [added |-> Len(clauses)]
  /\ pc' = IF empty_clause # 0 THEN "unsat" ELSE "dpll"
  /\ UNCHANGED <<DpllSolver, DpllUnused>>

\* dpll(), lines 518-519.  The call at level 0 is the one of solve(); a
\* deeper call that returns unsatisfiable goes on in its caller at line 522.
dpll_branch(m, ok) ==
  IF ~ ok THEN IF m.level = 0 THEN "unsat" ELSE "failed"
  ELSE IF dpll_satisfied(m) THEN "sat"
  ELSE "decide"

DpllPropagate ==
  /\ pc = "dpll"
  /\ LET r == dpll_propagate(DpllMach)
     IN DpllStep(r.m, dpll_branch(r.m, r.ok))
  /\ UNCHANGED <<parsed, DpllUnused>>

\* dpll(), lines 520-521: decide() and the recursive call.
DpllDecide ==
  /\ pc = "decide"
  /\ DpllStep(dpll_decide(DpllMach), "dpll")
  /\ UNCHANGED <<parsed, DpllUnused>>

\* dpll(), lines 522-523: backtrack() and assign(-x).
DpllFlip ==
  /\ pc = "failed"
  /\ DpllStep(dpll_flip(DpllMach), "dpll")
  /\ UNCHANGED <<parsed, DpllUnused>>

DpllNext ==
  \/ DpllAddClause
  \/ DpllSolveStart
  \/ DpllPropagate
  \/ DpllDecide
  \/ DpllFlip

SpecDpll == DpllInit /\ [][DpllNext]_vars

\* C15: the DPLL solver's solve() returns for every formula, satisfiable
\* exactly when the formula has a satisfying assignment and unsatisfiable
\* exactly when it has none, and on a satisfiable return every clause has a
\* true literal.
C15_DpllDecidesFormula ==
  parsed # <<>> =>
    LET sat == \E a \in Assignments :
                 \A c \in 1..Len(clauses) : satisfiedClause(a, clauses[c].lits)
    IN /\ pc \in {"dpll", "decide", "failed", "sat", "unsat"}
       /\ pc = "sat" => sat /\ dpll_satisfied(DpllMach)
       /\ pc = "unsat" => ~ sat

(***************************************************************************)
(* parse() of babysat-watches.cpp on a stream of integers behind the       *)
(* header `p cnf NumVars expected`.  Here the variable `parsed` holds the  *)
(* file and the locals of parse(): the tokens of the file, the number of   *)
(* tokens read, the clause count of the header, the clause being read, the *)
(* last integer read and the number of clauses parsed.                     *)
(***************************************************************************)
MaxTokens == 4      \* integers in the file behind the header
MaxHeader == 2      \* largest clause count of the header

Tokens == {-2, 0, 1, OutOfRange}

RECURSIVE Streams(_)
Streams(n) ==
  IF n = 0 THEN {<<>>}
  ELSE LET shorter == Streams(n - 1)
       IN shorter \cup {Append(f, t) : f \in shorter, t \in Tokens}

ParseInit ==
  /\ Init
  /\ limit = DefaultLimit

ParseStart ==
  /\ pc = "parse"
  /\ parsed = <<>>
  /\ \E f \in Streams(MaxTokens), n \in 0..MaxHeader :
       parsed' = [file |-> f, at |-> 0, expected |-> n, clause |-> <<>>,
                  lit |-> 0, parsed |-> 0]
  /\ UNCHANGED <<pc, Solver, limit, Analysing, junk, variables, analyzed>>

\* One pass of the loop at lines 432-444: fscanf reads the next integer.
ParseInteger ==
  /\ pc = "parse"
  /\ parsed # <<>>
  /\ parsed.at < Len(parsed.file)
  /\ LET lit == parsed.file[parsed.at + 1]
         read == [parsed EXCEPT !.at = @ + 1, !.lit = lit]
     IN IF parsed.parsed = parsed.expected \/ abs(lit) > variables
          THEN /\ pc' = "parse_error"
               /\ parsed' = read
               /\ UNCHANGED <<Solver, junk, variables, analyzed>>
        ELSE IF lit # 0
          THEN /\ pc' = "parse"
               /\ parsed' = [read EXCEPT !.clause = Append(@, lit)]
               /\ UNCHANGED <<Solver, junk, variables, analyzed>>
        ELSE \E w1, w2 \in IF Len(parsed.clause) < 2 THEN UninitWords ELSE {0} :
               /\ junk + NonZero(w1) + NonZero(w2) <= MaxJunk
               /\ junk' = junk + NonZero(w1) + NonZero(w2)
               /\ UNCHANGED <<variables, analyzed>>
               /\ Step(add_clause(Mach, parsed.clause, w1, w2), "parse")
               /\ parsed' = [read EXCEPT !.clause = <<>>, !.parsed = @ + 1]
  /\ UNCHANGED <<limit, Analysing>>

\* Lines 445-448: fscanf finds the end of the file.
ParseEnd ==
  /\ pc = "parse"
  /\ parsed # <<>>
  /\ parsed.at = Len(parsed.file)
  /\ pc' = IF parsed.lit # 0 \/ parsed.parsed # parsed.expected
             THEN "parse_error" ELSE "solve"
  /\ UNCHANGED <<parsed, Solver, limit, Analysing, junk, variables, analyzed>>

ParseNext ==
  \/ ParseStart
  \/ ParseInteger
  \/ ParseEnd

SpecParse == ParseInit /\ [][ParseNext]_vars

\* The number of zeros among the first n integers of the file.
RECURSIVE Zeros(_, _)
Zeros(f, n) ==
  IF n = 0 THEN 0 ELSE Zeros(f, n - 1) + (IF f[n] = 0 THEN 1 ELSE 0)

\* The zero-terminated clauses of the file, in the order of the file.
RECURSIVE SplitClauses(_, _, _)
SplitClauses(f, i, cl) ==
  IF i > Len(f) THEN <<>>
  ELSE IF f[i] = 0 THEN <<cl>> \o SplitClauses(f, i + 1, <<>>)
       ELSE SplitClauses(f, i + 1, Append(cl, f[i]))

\* The file has a literal of magnitude > NumVars, an integer behind the
\* last clause the header announces, too few clauses, or no final 0.
Malformed(f, n) ==
  \/ \E i \in 1..Len(f) : abs(f[i]) > variables
  \/ \E i \in 1..Len(f) : Zeros(f, i - 1) >= n
  \/ Zeros(f, Len(f)) < n
  \/ Len(f) > 0 /\ f[Len(f)] # 0

\* C16: parse() ends in a parse error whenever the file is malformed; for
\* every other file it returns with exactly the clauses of the file added,
\* in the order of the file and each with its literals in that order.
C16_ParseErrorOrAllClauses ==
  (parsed # <<>> /\ pc # "parse") =>
    IF Malformed(parsed.file, parsed.expected)
      THEN pc = "parse_error"
      ELSE /\ pc = "solve"
           /\ Len(clauses) = parsed.expected
           /\ [c \in 1..Len(clauses) |-> clauses[c].lits] =
                SplitClauses(parsed.file, 1, <<>>)

\* C17: in every reachable state of the CDCL solver the decision stack has
\* `level` entries, they are non-decreasing, and each is a position between
\* the start and the end of the trail.
C17_ControlStack ==
  /\ Len(control) = level
  /\ \A k \in 1..Len(control) : 0 <= control[k] /\ control[k] <= Len(trail)
  /\ \A k \in 1..(Len(control) - 1) : control[k] <= control[k + 1]

C17_TwoDecisions ==
  /\ level = 2
  /\ conflicts > 0
  /\ control[1] < control[2]
  /\ control[2] < Len(trail)

\* C18: in every reachable state the trail holds exactly the assigned
\* variables, each once and with the sign that is true; its length is the
\* number of assigned variables and at most NumVars.
C18_TrailIsAssignment ==
  /\ \A i \in 1..Len(trail) : val(values, trail[i]) = 1
  /\ \A i, j \in 1..Len(trail) : abs(trail[i]) = abs(trail[j]) => i = j
  /\ {abs(l) : l \in SeqToSet(trail)} = {v \in Vars : values[v] # 0}
  /\ Len(trail) = Cardinality({v \in Vars : values[v] # 0})
  /\ Len(trail) <= variables

C18_FullTrailAfterConflict ==
  /\ Len(trail) = variables
  /\ conflicts > 0
  /\ level >= 1
  /\ \E i \in 1..Len(trail) : trail[i] < 0

\* C19: the cursor of propagation never exceeds the trail length, and
\* decide() and the test satisfied() only run when the cursor is at the end
\* of the trail (propagated == assigned holds in satisfied()).
C19_CursorWithinTrail ==
  /\ propagated <= Len(trail)
  /\ PropagateReturnedNone => propagated = Len(trail)

C19_AllPropagatedBeforeDecide ==
  /\ pc = "decide"
  /\ propagated = Len(trail)
  /\ propagated >= 2
  /\ conflicts > 0

\* C20: assign is only called for a literal whose variable is unassigned
\* and unassign only for a literal that is true, at every call in
\* add_clause, propagate, decide, analyze and backtrack: the assertions of
\* assign and unassign hold whatever step the solver takes next.
C20_AssignUnassignPreconditions ==
  /\ pc = "parse" =>
       \A lits \in Pool : ~ add_clause(Mach, lits, 0, 0).broken
  /\ pc = "propagate" => ~ propagate(Mach).m.broken
  /\ pc = "decide" => ~ decide(Mach).broken
  /\ pc = "learned" => ~ backtrack(Mach, backjump).broken
  /\ pc = "backjumped" => ~ learn(Mach, learned, uip, backjump).broken

C20_UnitLearnedAfterBacktrack ==
  /\ AnalyzeReturned
  /\ Len(learned) = 1
  /\ trail[Len(trail)] = 0 - uip
  /\ val(values, uip) = -1
  /\ level = 0

\* Lines 464-508: the clauses the loop over watched[-lit] visits, in the
\* order of the visits, each with whether it watches -lit when visited.
RECURSIVE Visited(_, _, _, _)
Visited(m, lit, buf, i) ==
  IF i > Len(buf) \/ m.crashed THEN <<>>
  ELSE LET r == VisitClause(m, lit, buf, i)
           cl == m.clauses[buf[i]]
           visit == [clause |-> buf[i],
                     watching |-> cl.watch1 = 0 - lit \/ cl.watch2 = 0 - lit]
       IN <<visit>> \o (IF r.conflict # 0 THEN <<>>
                        ELSE Visited(r.m, lit, r.buf, i + 1))

\* The run of propagate from the machine m: for each literal it takes from
\* the trail, the visits are the clauses of watched[-lit] at the start of
\* the loop, in order and each once, up to the conflict if there is one,
\* and every visited clause watches -lit when it is visited.
RECURSIVE EnumeratesOnce(_)
EnumeratesOnce(m) ==
  IF m.propagated = Len(m.trail) \/ m.crashed THEN TRUE
  ELSE LET lit == m.trail[m.propagated + 1]
           m1 == [m EXCEPT !.propagations = @ + 1, !.propagated = @ + 1]
           occurrences == m1.watched[0 - lit]
           seen == Visited(m1, lit, occurrences, 1)
           r == VisitWatches(m1, lit, occurrences, 1)
       IN /\ Len(seen) <= Len(occurrences)
          /\ \A k \in 1..Len(seen) :
               seen[k].clause = occurrences[k] /\ seen[k].watching
          /\ r.conflict = 0 => Len(seen) = Len(occurrences)
          /\ r.conflict # 0 \/ EnumeratesOnce(r.m)

\* C21: while propagate processes a trail literal, every clause that is in
\* watched[-lit] when the loop starts is examined exactly once unless a
\* conflict is returned first: none is skipped because an earlier clause
\* moved its watch away, none is examined after it stopped watching -lit.
C21_WatchEnumeration == pc = "propagate" => EnumeratesOnce(Mach)

\* The number of cells of the sequence s that hold x.
Count(s, x) == Cardinality({k \in 1..Len(s) : s[k] = x})

\* The watches of clause c of the machine m are two distinct literals of c
\* and c stands once in the watch lists of these two and in no other.
WatchesIndexed(m, c) ==
  LET cl == m.clauses[c]
  IN /\ cl.watch1 # cl.watch2
     /\ cl.watch1 \in SeqToSet(cl.lits)
     /\ cl.watch2 \in SeqToSet(cl.lits)
     /\ \A x \in Lits :
          Count(m.watched[x], c) = IF x \in {cl.watch1, cl.watch2} THEN 1 ELSE 0

\* Lines 481-487 for the clause in cell i: if the visit changes a watch of
\* the clause, it is the watch that held -lit that is replaced, the clause
\* has left watched[-lit] and is the last entry of the new watch's list.
MovesWatchOfLit(m, lit, buf, i) ==
  LET c == buf[i]
      before == m.clauses[c]
      r == VisitClause(m, lit, buf, i)
      after == r.m.clauses[c]
      x == IF after.watch1 # before.watch1 THEN after.watch1 ELSE after.watch2
  IN (after.watch1 # before.watch1 \/ after.watch2 # before.watch2) =>
       /\ \/ before.watch1 = 0 - lit /\ after.watch2 = before.watch2
          \/ before.watch2 = 0 - lit /\ after.watch1 = before.watch1
       /\ Count(r.m.watched[0 - lit], c) = 0
       /\ Len(r.m.watched[x]) > 0
       /\ r.m.watched[x][Len(r.m.watched[x])] = c

RECURSIVE VisitsKeepIndex(_, _, _, _)
VisitsKeepIndex(m, lit, buf, i) ==
  IF i > Len(buf) \/ m.crashed THEN TRUE
  ELSE LET r == VisitClause(m, lit, buf, i)
       IN /\ MovesWatchOfLit(m, lit, buf, i)
          /\ \A c \in 1..Len(r.m.clauses) :
               Len(r.m.clauses[c].lits) >= 2 => WatchesIndexed(r.m, c)
          /\ r.conflict # 0 \/ VisitsKeepIndex(r.m, lit, r.buf, i + 1)

\* The run of propagate from the machine m keeps the watches indexed
\* between the visits of clauses.
RECURSIVE KeepsWatchIndex(_)
KeepsWatchIndex(m) ==
  IF m.propagated = Len(m.trail) \/ m.crashed THEN TRUE
  ELSE LET lit == m.trail[m.propagated + 1]
           m1 == [m EXCEPT !.propagations = @ + 1, !.propagated = @ + 1]
           r == VisitWatches(m1, lit, m1.watched[0 - lit], 1)
       IN /\ VisitsKeepIndex(m1, lit, m1.watched[0 - lit], 1)
          /\ r.conflict # 0 \/ KeepsWatchIndex(r.m)

\* C22: on entry to propagate, between its visits of clauses and on exit,
\* every clause of size at least two has two distinct literals of its own
\* as watch1 and watch2 and stands exactly once in the watch list of each
\* of them and in no other watch list; a watch move takes the clause out of
\* watched[-lit], appends it to the list of the new watch and replaces
\* exactly the watch that held -lit.
C22_WatchIndexConsistent ==
  /\ \A c \in 1..Len(clauses) :
       Len(clauses[c].lits) >= 2 => WatchesIndexed(Mach, c)
  /\ pc = "propagate" => KeepsWatchIndex(Mach)

\* The position of the literal lit on the trail tr (0 if it is not there).
RECURSIVE TrailPosition(_, _)
TrailPosition(tr, lit) ==
  IF Len(tr) = 0 THEN 0
  ELSE IF tr[Len(tr)] = lit THEN Len(tr)
       ELSE TrailPosition(SubSeq(tr, 1, Len(tr) - 1), lit)

\* The clause c is a valid antecedent of the literal at trail position i of
\* the machine m: it holds that literal, and each other literal of it is
\* false and was assigned at an earlier trail position.
ValidAntecedent(m, i, c) ==
  LET lits == m.clauses[c].lits
  IN /\ m.trail[i] \in SeqToSet(lits)
     /\ \A k \in 1..Len(lits) :
          lits[k] # m.trail[i] =>
            /\ val(m.values, lits[k]) = -1
            /\ TrailPosition(m.trail, 0 - lits[k]) \in 1..(i - 1)

\* Lines 493-505 for the clause in cell i: if the visit assigns a literal,
\* all other literals of the clause are false when it does.
RECURSIVE AssignsOnlyUnits(_, _, _, _)
AssignsOnlyUnits(m, lit, buf, i) ==
  IF i > Len(buf) \/ m.crashed THEN TRUE
  ELSE LET r == VisitClause(m, lit, buf, i)
           lits == m.clauses[buf[i]].lits
       IN /\ Len(r.m.trail) > Len(m.trail) =>
               \A k \in 1..Len(lits) :
                 lits[k] # r.m.trail[Len(r.m.trail)] =>
                   val(m.values, lits[k]) = -1
          /\ r.conflict # 0 \/ AssignsOnlyUnits(r.m, lit, r.buf, i + 1)

\* The run of propagate from the machine m assigns only forced literals.
RECURSIVE PropagatesOnlyUnits(_)
PropagatesOnlyUnits(m) ==
  IF m.propagated = Len(m.trail) \/ m.crashed THEN TRUE
  ELSE LET lit == m.trail[m.propagated + 1]
           m1 == [m EXCEPT !.propagations = @ + 1, !.propagated = @ + 1]
           r == VisitWatches(m1, lit, m1.watched[0 - lit], 1)
       IN /\ AssignsOnlyUnits(m1, lit, m1.watched[0 - lit], 1)
          /\ r.conflict # 0 \/ PropagatesOnlyUnits(r.m)

\* C23: for every assigned variable whose antecedent is a clause, the
\* clause holds the variable's true literal and every other literal of it
\* is false and was assigned at an earlier trail position; propagate calls
\* assign(other, C) only when all other literals of C are false.
C23_AntecedentValid ==
  /\ \A i \in 1..Len(trail) :
       reasons[abs(trail[i])] \in 1..Len(clauses) =>
         ValidAntecedent(Mach, i, reasons[abs(trail[i])])
  /\ pc = "propagate" => PropagatesOnlyUnits(Mach)

\* The literals of clause c that the assignment vals leaves unassigned.
FreeLiterals(vals, lits) == {k \in 1..Len(lits) : val(vals, lits[k]) = 0}

\* C24: whenever propagate returns none, no clause of the store has all
\* its literals false, and no clause has exactly one unassigned literal
\* with all its other literals false.
C24_PropagationComplete ==
  PropagateReturnedNone =>
    \A c \in 1..Len(clauses) :
      LET lits == clauses[c].lits
      IN \/ \E k \in 1..Len(lits) : val(values, lits[k]) = 1
         \/ Cardinality(FreeLiterals(values, lits)) >= 2

\* C25: for every conflict analysed at a level L >= 1 the backjump level
\* that analyze computes is below L, so new_level < level holds when
\* backtrack is entered, and after the backtrack the variable of the UIP is
\* unassigned.
C25_BackjumpBelowLevel ==
  /\ pc \in {"analyze", "learned"} => level >= 1
  /\ pc = "learned" => backjump < level /\ val(values, uip) = 1
  /\ pc = "backjumped" => level = backjump /\ val(values, uip) = 0

C25_BackjumpedWithThreeLiterals ==
  /\ pc = "backjumped"
  /\ Len(learned) = 3
  /\ backjump >= 1
  /\ level = backjump
  /\ val(values, uip) = 0

\* C26: the clause that analyze learns at the conflict level L holds exactly
\* one literal of level L, the negation of the UIP; every other literal of
\* it is assigned at a level strictly between 0 and L, so no variable of
\* level 0 occurs in it, and no variable occurs in it twice.
C26_LearnedClauseLevels ==
  pc = "learned" =>
    /\ Len(learned) >= 1
    /\ learned[Len(learned)] = 0 - uip
    /\ levels[abs(uip)] = level
    /\ \A k \in 1..(Len(learned) - 1) :
         /\ val(values, learned[k]) = -1
         /\ 0 < levels[abs(learned[k])]
         /\ levels[abs(learned[k])] < level
    /\ \A j, k \in 1..Len(learned) :
         abs(learned[j]) = abs(learned[k]) => j = k

C26_LearnedThreeLiterals ==
  /\ pc = "learned"
  /\ Len(learned) = 3
  /\ level = 2
  /\ levels[abs(learned[1])] = 1
  /\ levels[abs(learned[2])] = 1
  /\ learned[3] = 0 - uip

\* C27: when analyze adds a learned clause of size at least two, the two
\* watched positions of the new clause hold the asserting literal, the
\* negation of the UIP, and a literal whose level is the highest among the
\* other literals of the clause.
C27_LearnedClauseWatches ==
  (AnalyzeReturned /\ Len(learned) >= 2) =>
    LET cl == clauses[Len(clauses)]
        rest == SeqToSet(learned) \ {0 - uip}
    IN /\ cl.lits = learned
       /\ cl.watch1 # cl.watch2
       /\ 0 - uip \in {cl.watch1, cl.watch2}
       /\ \E x \in rest :
            /\ x \in {cl.watch1, cl.watch2}
            /\ \A y \in rest : levels[abs(y)] <= levels[abs(x)]

\* The sequences that order the elements of the sequence s.
RECURSIVE Orders(_)
Orders(s) ==
  IF Len(s) = 0 THEN {<<>>}
  ELSE UNION { { <<s[k]>> \o p :
                 p \in Orders(SubSeq(s, 1, k - 1)
                                    \o SubSeq(s, k + 1, Len(s))) } :
               k \in 1..Len(s) }

\* The literal lit of the candidate clause cand \/ -u has an antecedent
\* every other literal of which is in the candidate clause or of level 0.
Dominated(m, cand, u, lit) ==
  LET reason == m.reasons[abs(lit)]
  IN /\ reason \in 1..Len(m.clauses)
     /\ \A j \in 1..Len(m.clauses[reason].lits) :
          LET other == m.clauses[reason].lits[j]
          IN abs(other) # abs(lit) =>
               \/ other \in SeqToSet(cand) \cup {0 - u}
               \/ m.levels[abs(other)] = 0

\* C28: the minimization of analyze drops every literal of the candidate
\* clause, the UIP's apart, that has an antecedent all of whose other
\* literals are in the original candidate clause or assigned at level 0,
\* and keeps the others; the result does not depend on the order in which
\* the literals are checked.
C28_MinimizationDropsDominated ==
  pc = "analyze" =>
    \A g \in IF ReadsUninit(Mach, conflict) THEN UninitLevels ELSE {0} :
      LET r == Analysis(Mach, conflict, g)
          cand == r.candidate
          kept == {cand[k] : k \in {j \in 1..Len(cand) :
                                      ~ Dominated(Mach, cand, r.uip, cand[j])}}
      IN ~ r.crashed =>
           /\ SeqToSet(r.learned) = kept \cup {0 - r.uip}
           /\ \A p \in Orders(cand) :
                SeqToSet(Minimize(Mach, p, p, 1)) = kept

\* The false literal lit follows from the falsity of the literals of the
\* clause lrn: it is one of them, or its variable has an antecedent every
\* other literal of which follows in turn (fuel bounds the depth).
RECURSIVE Implied(_, _, _, _)
Implied(m, lrn, lit, fuel) ==
  \/ lit \in SeqToSet(lrn)
  \/ /\ fuel > 0
     /\ m.reasons[abs(lit)] \in 1..Len(m.clauses)
     /\ \A j \in 1..Len(m.clauses[m.reasons[abs(lit)]].lits) :
          LET other == m.clauses[m.reasons[abs(lit)]].lits[j]
          IN abs(other) # abs(lit) => Implied(m, lrn, other, fuel - 1)

\* C29: the minimization of analyze never removes the literal of the UIP
\* and never removes a literal whose antecedent is none (a decision); it
\* removes a literal only if every other literal of its antecedent is
\* implied by the literals that remain in the learned clause.
C29_MinimizationSound ==
  pc = "analyze" =>
    \A g \in IF ReadsUninit(Mach, conflict) THEN UninitLevels ELSE {0} :
      LET r == Analysis(Mach, conflict, g)
          removed == SeqToSet(r.candidate) \ SeqToSet(r.learned)
      IN ~ r.crashed =>
           /\ 0 - r.uip \in SeqToSet(r.learned)
           /\ SeqToSet(r.learned) \subseteq SeqToSet(r.candidate) \cup {0 - r.uip}
           /\ \A lit \in removed :
                /\ reasons[abs(lit)] \in 1..Len(clauses)
                /\ \A j \in 1..Len(clauses[reasons[abs(lit)]].lits) :
                     LET other == clauses[reasons[abs(lit)]].lits[j]
                     IN abs(other) # abs(lit) =>
                          Implied(Mach, r.learned, other, variables)

C29_LiteralRemoved ==
  /\ pc = "analyze"
  /\ ~ ReadsUninit(Mach, conflict)
  /\ LET r == Analysis(Mach, conflict, 0)
     IN /\ ~ r.crashed
        /\ Len(r.candidate) = 3
        /\ Len(r.learned) = 3
        /\ \E lit \in SeqToSet(r.candidate) \ SeqToSet(r.learned) :
             reasons[abs(lit)] \in 1..Len(clauses)

\* C30: the clause that analyze learns has size 1 exactly when no literal
\* below the conflict level was stamped; then, and for a clause of size 1
\* only then, the backjump level is 0, the negation of the UIP is assigned
\* at level 0 with the antecedent none and no clause is added to the
\* store.  The minimization never reduces a clause that has literals of
\* lower levels to size 1.
C30_UnitLearnedClause ==
  /\ pc = "analyze" =>
       \A g \in IF ReadsUninit(Mach, conflict) THEN UninitLevels ELSE {0} :
         LET r == Analysis(Mach, conflict, g)
         IN ~ r.crashed =>
              /\ Len(r.learned) = 1 <=> r.candidate = <<>>
              /\ Len(r.learned) = 1 => r.backjump = 0
  /\ (pc = "backjumped" /\ Len(learned) = 1) =>
       LET m == learn(Mach, learned, uip, backjump)
       IN /\ backjump = 0
          /\ level = 0
          /\ m.clauses = clauses
          /\ m.trail = Append(trail, 0 - uip)
          /\ m.levels[abs(uip)] = 0
          /\ m.reasons[abs(uip)] = 0
  /\ (AnalyzeReturned /\ Len(learned) = 1) =>
       /\ level = 0
       /\ levels[abs(uip)] = 0
       /\ reasons[abs(uip)] = 0
       /\ val(values, uip) = -1

C30_UnitLearnedAtLevelTwo ==
  /\ pc = "backjumped"
  /\ Len(learned) = 1
  /\ backjump = 0
  /\ levels[abs(uip)] = 2
  /\ val(values, uip) = 0

\* Lines 583-626 for the conflicting clause c of the machine m: the pointer
\* copy stays on the trail.  The resolution loop ends on the trail with one
\* stamped literal of the conflict level left, the loop of line 605 finds a
\* stamped literal on the trail, and the loop of lines 611-626 finds all
\* `lower` stamped literals above the trail bottom.
StaysOnTrail(m, c, g) ==
  LET a0 == AnalyzeClause(m, [stamped |-> m.stamped, current |-> 0, lower |-> 0],
                          m.clauses[c].lits, 1, g)
      r1 == ResolveLoop(m, a0, Len(m.trail), g)
      at == IF r1.crashed THEN 0 ELSE SkipUnstamped(m, r1.a, r1.copy)
  IN /\ ~ r1.crashed
     /\ r1.a.current = 1
     /\ at \in 1..Len(m.trail)
     /\ ~ CollectLower(m, r1.a, at - 1, r1.a.lower, <<>>, 0).crashed

\* C31: in every call of analyze that solve() reaches, the backward trail
\* pointer never moves below the first trail position: the resolution loop
\* ends with exactly one stamped literal of the conflict level left, a
\* stamped UIP is found on the trail, and the loop that collects the
\* literals of lower levels finds all of them above the trail bottom.
C31_AnalyzeStaysOnTrail ==
  pc = "analyze" =>
    \A g \in IF ReadsUninit(Mach, conflict) THEN UninitLevels ELSE {0} :
      StaysOnTrail(Mach, conflict, g)

\* C32: a clause of size 1 is never inserted in a watch list.  Adding it
\* assigns its literal at level 0 with the antecedent none when the literal
\* is unassigned, changes no assignment when the literal is already true,
\* and records the empty clause as found when the literal is already
\* false.
C32_UnitClauseNotWatched ==
  /\ \A c \in 1..Len(clauses) :
       Len(clauses[c].lits) = 1 => \A x \in Lits : Count(watched[x], c) = 0
  /\ pc = "parse" =>
       \A lits \in {l \in Pool : Len(l) = 1} :
         \A w1, w2 \in UninitWords :
           junk + NonZero(w1) + NonZero(w2) <= MaxJunk =>
             LET m == add_clause(Mach, lits, w1, w2)
                 c == Len(clauses) + 1
                 unit == lits[1]
             IN /\ m.watched = watched
                /\ val(values, unit) = 0 =>
                     /\ m.trail = Append(trail, unit)
                     /\ val(m.values, unit) = 1
                     /\ m.levels[abs(unit)] = 0
                     /\ m.reasons[abs(unit)] = 0
                     /\ m.empty_clause = empty_clause
                /\ val(values, unit) = 1 =>
                     /\ m.values = values
                     /\ m.trail = trail
                     /\ m.empty_clause = empty_clause
                /\ val(values, unit) = -1 =>
                     /\ m.values = values
                     /\ m.trail = trail
                     /\ m.empty_clause = c

\* C33: the conflict limit is polled before every decision: decide() is
\* never executed in a state in which conflicts >= limit, so with the limit
\* 0 no decision is ever made.
C33_LimitPolledBeforeDecide ==
  /\ pc = "decide" => conflicts < limit
  /\ limit = 0 => decisions = 0 /\ level = 0 /\ pc # "decide"

C33_NoDecisionAtLimitZero ==
  /\ pc = "unknown"
  /\ limit = 0
  /\ decisions = 0
  /\ Len(clauses) >= 2
  /\ Len(trail) < variables

\* C34: in every reachable state the recorded levels of the trail literals
\* do not decrease along the trail (the level of trail[i] is at most the
\* level of trail[j] for i < j), also after a backjump and the assignment
\* of the asserting literal that follows it.
C34_TrailLevelsAscend ==
  \A i, j \in 1..Len(trail) :
    i < j => levels[abs(trail[i])] <= levels[abs(trail[j])]

C34_AssertedAfterBackjump ==
  /\ AnalyzeReturned
  /\ level >= 1
  /\ Len(trail) >= 3
  /\ backjump = level
  /\ levels[abs(trail[Len(trail)])] = level
  /\ trail[Len(trail)] = 0 - uip

\* C35: every clause that analyze adds to the store, and every unit it
\* learns and asserts at level 0, follows from the original formula: every
\* total assignment that satisfies all original clauses satisfies the
\* learned clause.
C35_LearnedClauseImplied ==
  pc = "learned" =>
    \A a \in Assignments :
      (\A i \in Original : satisfiedClause(a, clauses[i].lits))
        => satisfiedClause(a, learned)


\* C36: in the DPLL solver, whenever propagate() returns true (dpll() goes
\* on to satisfied() and decide()), every clause with the negation of a
\* propagated literal was examined: no clause has all its literals false,
\* and no clause is left with exactly one unassigned literal and all its
\* other literals false.
C36_DpllPropagationComplete ==
  pc \in {"decide", "sat"} =>
    \A c \in 1..Len(clauses) :
      LET lits == clauses[c].lits
      IN satisfiedClause(values, lits)
           \/ Cardinality(UnassignedAt(values, lits)) >= 2

\* C37: in the DPLL solver, whenever dpll() calls decide() a variable is
\* unassigned, so that decide() picks a variable of 1..variables and never
\* assigns the literal 0, and the literal it assigns is unassigned as assign
\* asserts.
C37_DpllDecideFindsVariable ==
  pc = "decide" =>
    LET res == FirstUnassigned(values, 1)
    IN /\ \E v \in Vars : values[v] = 0
       /\ res \in Vars
       /\ values[res] = 0
       /\ ~ dpll_decide(DpllMach).crashed


(***************************************************************************)
(* The CDCL solver of src/unnamed/part_000 (lines 84-850 are its           *)
(* babysat.cpp): clauses are connected in full occurrence lists            *)
(* (`matrix`), analyze flips one literal after backtracking and adds no    *)
(* clause.  Its globals are the variables above; `watched`, `conflict`'s   *)
(* watches and `junk` are not used, `analyzed` is the global vector of     *)
(* that name, which analyze does not clear.                                *)
(***************************************************************************)
OccInputClauses ==
  { <<>>, <<1>>, <<-1>>, <<2>>,
    <<-1, -2>>, <<2, 3>>, <<2, -3>>, <<3, -1>>, <<-2, -1>>, <<-1, 2>>,
    <<1, 2>>, <<-2, -3>>, <<1, -2, 3>> }

OccMach ==
  [values |-> values, levels |-> levels, reasons |-> reasons,
   stamped |-> stamped, clauses |-> clauses, empty_clause |-> empty_clause,
   trail |-> trail, propagated |-> propagated, control |-> control,
   level |-> level, conflicts |-> conflicts, backjumps |-> backjumps,
   decisions |-> decisions, propagations |-> propagations, fixed |-> fixed,
   searched |-> searched, analyzed |-> analyzed, learned |-> learned,
   uip |-> uip, backjump |-> backjump, crashed |-> FALSE]

OccSolver == <<values, levels, reasons, stamped, clauses, empty_clause, trail,
               propagated, control, level, conflicts, backjumps, decisions,
               propagations, fixed, searched, analyzed, learned, uip,
               backjump>>

\* The variables that src/unnamed/part_000 has no global for.
OccUnused == <<watched, junk, variables>>

OccStore(m) ==
  /\ values' = m.values
  /\ levels' = m.levels
  /\ reasons' = m.reasons
  /\ stamped' = m.stamped
  /\ clauses' = m.clauses
  /\ empty_clause' = m.empty_clause
  /\ trail' = m.trail
  /\ propagated' = m.propagated
  /\ control' = m.control
  /\ level' = m.level
  /\ conflicts' = m.conflicts
  /\ backjumps' = m.backjumps
  /\ decisions' = m.decisions
  /\ propagations' = m.propagations
  /\ fixed' = m.fixed
  /\ searched' = m.searched
  /\ analyzed' = m.analyzed
  /\ learned' = m.learned
  /\ uip' = m.uip
  /\ backjump' = m.backjump

\* static void assign(int lit, Clause *reason).  The trail is an array of
\* variables + 1 cells: a write behind it is a write behind the allocation.
occ_assign(m, lit, reason) ==
  IF Len(m.trail) > variables THEN [m EXCEPT !.crashed = TRUE]
  ELSE [m EXCEPT !.values[abs(lit)] = IF lit > 0 THEN 1 ELSE -1,
                 !.levels[abs(lit)] = m.level,
                 !.reasons[abs(lit)] = reason,
                 !.trail = Append(@, lit),
                 !.fixed = IF m.level = 0 THEN @ + 1 ELSE @]

\* static Clause *add_clause(std::vector<int> &literals): the clause is
\* connected through `matrix` below, units are assigned without a reason.
occ_add_clause(m, lits) ==
  LET c == Len(m.clauses) + 1
      m1 == [m EXCEPT !.clauses = Append(@, [lits |-> lits])]
  IN IF Len(lits) = 0 THEN [m1 EXCEPT !.empty_clause = c]
     ELSE IF Len(lits) = 1
       THEN IF val(m1.values, lits[1]) = 0 THEN occ_assign(m1, lits[1], 0)
            ELSE IF val(m1.values, lits[1]) < 0
              THEN [m1 EXCEPT !.empty_clause = c]
              ELSE m1
     ELSE m1

\* propagate, lines 522-527: the loop over the literals of a clause from
\* position j with the candidate `unit`.  The result is -1 for NEXT_CLAUSE
\* (a true literal or a second unassigned one), else the value of `unit`
\* behind the loop.
RECURSIVE occ_unit(_, _, _, _)
occ_unit(vals, lits, j, unit) ==
  IF j > Len(lits) THEN [next |-> FALSE, unit |-> unit]
  ELSE IF val(vals, lits[j]) < 0 THEN occ_unit(vals, lits, j + 1, unit)
  ELSE IF val(vals, lits[j]) > 0 \/ unit # 0
    THEN [next |-> TRUE, unit |-> unit]
  ELSE occ_unit(vals, lits, j + 1, lits[j])

\* propagate, lines 520-536: the loop over matrix[-lit] from its cell i.
\* conflict is the clause returned, 0 when the loop ends.
RECURSIVE occ_visit(_, _, _)
occ_visit(m, occ, i) ==
  IF i > Len(occ) \/ m.crashed THEN [m |-> m, conflict |-> 0]
  ELSE LET c == occ[i]
           r == occ_unit(m.values, m.clauses[c].lits, 1, 0)
       IN IF r.next THEN occ_visit(m, occ, i + 1)
          ELSE IF r.unit = 0
            THEN [m |-> [m EXCEPT !.conflicts = @ + 1], conflict |-> c]
          ELSE occ_visit(occ_assign(m, r.unit, c), occ, i + 1)

\* static Clause *propagate(void)
RECURSIVE occ_propagate(_)
occ_propagate(m) ==
  IF m.propagated >= Len(m.trail) \/ m.crashed THEN [m |-> m, conflict |-> 0]
  ELSE LET lit == m.trail[m.propagated + 1]
           m1 == [m EXCEPT !.propagations = @ + 1, !.propagated = @ + 1]
           r == occ_visit(m1, matrix(m1.clauses, 0 - lit, 1), 1)
       IN IF r.conflict = 0 THEN occ_propagate(r.m) ELSE r

\* The cursor of decide behind its loop (line 547); variables + 1 when no
\* variable from `searched` on is unassigned.
RECURSIVE occ_search(_, _)
occ_search(vals, s) ==
  IF s > variables THEN s
  ELSE IF vals[s] = 0 THEN s ELSE occ_search(vals, s + 1)

\* static void decide(void).  Without an unassigned variable the loop reads
\* values behind its allocation.
occ_decide(m) ==
  LET s == occ_search(m.values, m.searched)
      m1 == [m EXCEPT !.decisions = @ + 1]
  IN IF s > variables THEN [m1 EXCEPT !.crashed = TRUE]
     ELSE occ_assign([m1 EXCEPT !.searched = s,
                                !.level = @ + 1,
                                !.control = Append(@, Len(m.trail)),
                                !.stamped[s] = 0],
                     s, 0)

\* static void unassign(int lit)
occ_unassign(m, lit) ==
  [m EXCEPT !.values[abs(lit)] = 0,
            !.searched = IF abs(lit) < @ THEN abs(lit) ELSE @]

RECURSIVE occ_pop(_, _)
occ_pop(m, before) ==
  IF Len(m.trail) <= before THEN m
  ELSE occ_pop([occ_unassign(m, m.trail[Len(m.trail)])
                  EXCEPT !.trail = SubSeq(@, 1, Len(@) - 1)],
               before)

\* static void backtrack(unsigned new_level), with new_level < level.
occ_backtrack(m, new_level) ==
  LET before == m.control[new_level + 1]
      m1 == occ_pop(m, before)
  IN [m1 EXCEPT !.control = SubSeq(@, 1, new_level),
                !.propagated = before,
                !.level = new_level]

\* static void analyze_literal(int lit)
occ_analyze_literal(m, lit) ==
  LET idx == abs(lit)
  IN IF m.levels[idx] = 0 \/ m.stamped[idx] = m.conflicts THEN m
     ELSE [m EXCEPT !.stamped[idx] = m.conflicts,
                    !.learned = IF m.levels[idx] < m.level
                                  THEN Append(@, lit) ELSE @,
                    !.analyzed = IF m.reasons[idx] # 0
                                   THEN Append(@, idx) ELSE @]

\* for (auto lit : *c) analyze_literal(lit), from position j.
RECURSIVE occ_analyze_clause(_, _, _)
occ_analyze_clause(m, lits, j) ==
  IF j > Len(lits) THEN m
  ELSE occ_analyze_clause(occ_analyze_literal(m, lits[j]), lits, j + 1)

\* analyze, lines 618-625: the entries of `analyzed` on the current level.
OnLevel(m) ==
  SelectSeq(m.analyzed, LAMBDA idx : m.levels[idx] = m.level)

\* What *control[level] can give.  control holds `level` pointers, so the
\* read is one cell behind the vector's last: a stale pointer into the trail
\* gives a literal that was assigned before, any other word cannot be
\* dereferenced (0).
PastControl(m) == {0} \cup {l \in Lits : m.levels[abs(l)] # Uninit}

\* analyze, lines 602-632: the loop over `analyzed`.  The result is the
\* value of `uip` behind the loop; g is what *control[level] gives.
RECURSIVE occ_resolve(_, _)
occ_resolve(m, g) ==
  IF m.analyzed = <<>> THEN [m |-> m, uip |-> 0]
  ELSE LET idx == m.analyzed[Len(m.analyzed)]
           m1 == [m EXCEPT !.analyzed = SubSeq(@, 1, Len(@) - 1)]
           reason == m.reasons[idx]
       IN IF reason = 0 /\ m.levels[idx] = m.level
            THEN IF g = 0 THEN [m |-> [m1 EXCEPT !.crashed = TRUE], uip |-> 0]
                 ELSE [m |-> m1, uip |-> g]
          ELSE IF reason = 0 THEN occ_resolve(m1, g)
          ELSE LET m2 == occ_analyze_clause(m1, m.clauses[reason].lits, 1)
                   on == OnLevel(m2)
               IN IF Len(on) = 1 THEN [m |-> m2, uip |-> on[1]]
                  ELSE occ_resolve(m2, g)

\* analyze, lines 648-650: the largest level below `level` in the learned
\* clause from position j.
RECURSIVE occ_backjump_level(_, _, _)
occ_backjump_level(m, j, best) ==
  IF j > Len(m.learned) THEN best
  ELSE LET lvl == m.levels[abs(m.learned[j])]
       IN occ_backjump_level(m, j + 1,
            IF lvl < m.level /\ lvl > best THEN lvl ELSE best)

\* analyze, lines 595-641: the literal `uip` that analyze flips, with the
\* state before the backtracking.
occ_find_uip(m, c, g) ==
  LET m0 == occ_analyze_clause([m EXCEPT !.learned = <<>>],
                               m.clauses[c].lits, 1)
      r == occ_resolve(m0, g)
      u == IF r.uip = 0 /\ ~ r.m.crashed
             THEN r.m.trail[r.m.control[Len(r.m.control)] + 1]
             ELSE r.uip
  IN [r.m EXCEPT !.uip = u, !.learned = Append(@, u)]

\* static void analyze(Clause *c)
occ_analyze(m, c, g) ==
  LET m1 == occ_find_uip(m, c, g)
      backtrack_level == m1.level - 1
      found == occ_backjump_level(m1, 1, 0)
      backjump_level == IF found = 0 THEN backtrack_level ELSE found
      m2 == [m1 EXCEPT !.backjump = backjump_level,
                       !.backjumps = IF backtrack_level - backjump_level # 0
                                       THEN @ + 1 ELSE @]
  IN IF m1.crashed THEN m1
     ELSE occ_assign(occ_backtrack(m2, backjump_level), 0 - m1.uip, 0)

\* static bool satisfied(): assigned - trail == variables.
occ_satisfied(m) == Len(m.trail) = variables

\* The state when main() has read the header `p cnf NumVars ...`.
OccInit == Construct(NumVars)

OccStep(m, next) ==
  IF m.crashed THEN pc' = "crash" /\ UNCHANGED OccSolver
  ELSE pc' = next /\ OccStore(m)

\* parse(): one clause of the input is read and added.
OccAddClause ==
  /\ pc = "parse"
  /\ Len(clauses) < MaxClauses
  /\ \E lits \in OccInputClauses :
       OccStep(occ_add_clause(OccMach, lits), "parse")
  /\ UNCHANGED <<limit, conflict, parsed, OccUnused>>

\* parse() returns and solve() is entered: line 674.
OccSolveStart ==
  /\ pc = "parse"
  /\ parsed' = [added |-> Len(clauses)]
  /\ pc' = IF empty_clause # 0 THEN "unsat" ELSE "propagate"
  /\ UNCHANGED <<OccSolver, limit, conflict, OccUnused>>

\* solve(), lines 676-685: where the loop goes behind propagate().
occ_branch(m, c, lim) ==
  IF c # 0 THEN IF m.level = 0 THEN "unsat" ELSE "analyze"
  ELSE IF occ_satisfied(m) THEN "sat"
  ELSE IF m.conflicts >= lim THEN "unknown"
  ELSE "decide"

OccPropagate ==
  /\ pc = "propagate"
  /\ LET r == occ_propagate(OccMach)
     IN /\ OccStep(r.m, occ_branch(r.m, r.conflict, limit))
        /\ conflict' = IF r.m.crashed THEN conflict ELSE r.conflict
  /\ UNCHANGED <<limit, parsed, OccUnused>>

OccAnalyze ==
  /\ pc = "analyze"
  /\ \E g \in PastControl(OccMach) :
       OccStep(occ_analyze(OccMach, conflict, g), "propagate")
  /\ UNCHANGED <<limit, conflict, parsed, OccUnused>>

OccDecide ==
  /\ pc = "decide"
  /\ OccStep(occ_decide(OccMach), "propagate")
  /\ UNCHANGED <<limit, conflict, parsed, OccUnused>>

OccNext ==
  \/ OccAddClause
  \/ OccSolveStart
  \/ OccPropagate
  \/ OccAnalyze
  \/ OccDecide

SpecOcc == OccInit /\ [][OccNext]_vars


\* The literal of variable v that is true on the trail, 0 when v is
\* unassigned.
TrueLiteral(vals, v) == v * vals[v]

\* C38: in the occurrence-list solver, the literal that analyze assigns
\* after backtracking is the negation of the literal of the UIP variable
\* that was true on the trail at the conflict, and the UIP variable was
\* assigned at the conflict level.
C38_FlipsTrueUip ==
  pc = "analyze" =>
    \A g \in PastControl(OccMach) :
      LET m == occ_find_uip(OccMach, conflict, g)
          r == occ_analyze(OccMach, conflict, g)
          v == abs(m.uip)
      IN ~ r.crashed =>
           /\ m.uip # 0
           /\ values[v] # 0
           /\ levels[v] = level
           /\ r.trail[Len(r.trail)] = 0 - TrueLiteral(values, v)

\* C39: whenever solve() of the occurrence-list solver returns
\* UNSATISFIABLE, no assignment satisfies all clauses of the formula.
C39_UnsatisfiableIsSound ==
  pc = "unsat" =>
    ~ \E a \in Assignments :
        \A c \in 1..Len(clauses) : satisfiedClause(a, clauses[c].lits)

====
